---- MODULE Spec2Model ----
(***************************************************************************)
(* A model of parse.py: the scraper of the list of highest-grossing films. *)
(*                                                                         *)
(* Text is a sequence of one-character strings, so that the regular        *)
(* expressions and the whitespace handling of the source are computed      *)
(* character by character.  "nbsp" stands for the one character U+00A0.    *)
(* Markup is a tree of nodes [tag, text, href, kids]: a text node has tag  *)
(* "text" and its string in text; an element has its tag, its href         *)
(* attribute (None when absent) and its children in kids.                  *)
(***************************************************************************)
EXTENDS Integers, Sequences, FiniteSets, TLC

VARIABLES
    pc,           \* position of the __main__ block
    err,          \* the uncaught exception that ended the run, or None
    collection,   \* the documents of highest_grossing_films, in order
    prior,        \* the documents the collection held when the run began
    ops,          \* the sink operations performed so far, in order
    listing,      \* the parsed listing page (soup), once fetched
    title_index,  \* extract_films: title_index
    rows,         \* extract_films: rows (the target table's tr[1:])
    rowIdx,       \* extract_films: position of the row loop
    films,        \* extract_films: films
    log,          \* per appended film: the row, link and detail response seen
    fn_pc,        \* position of a function-level run (the Spec* harnesses)
    fn_in,        \* its input
    fn_out        \* its successive results

vars == <<pc, err, collection, prior, ops, listing, title_index, rows, rowIdx,
          films, log, fn_pc, fn_in, fn_out>>

mainVars == <<pc, err, collection, prior, ops, listing, title_index, rows,
              rowIdx, films, log>>

fnVars == <<fn_pc, fn_in, fn_out>>

\* Python's None, and a value that is present.  An optional value is a
\* sequence of length at most one, so that None is comparable with any value.
None == <<>>

Some(x) == <<x>>

\* no uncaught exception
NoErr == "none"

(***************************************************************************)
(* Bounds of the inputs.                                                   *)
(***************************************************************************)
MaxLen == 6        \* characters of a clean_text input
MaxPieces == 3     \* pieces of a release-date cell's text node
MaxFrags == 3      \* text fragments of a box-office cell
MaxInfoRows == 3   \* rows of a detail page's infobox
MaxCellNodes == 3  \* top-level nodes of a listing title cell
MaxRows == 2       \* data rows of the listing table
MaxPrior == 2      \* documents in the collection before the run

(***************************************************************************)
(* Characters.                                                             *)
(***************************************************************************)
Digits == {"0", "1", "2", "3", "4", "5", "6", "7", "8", "9"}

\* str.split() and str.strip() without arguments: Unicode whitespace,
\* U+00A0 included.
White == {" ", "\n", "\t", "nbsp"}

Uppers == <<"A", "B", "C", "D", "E", "F", "G", "H", "I", "J", "K", "L", "M",
            "N", "O", "P", "Q", "R", "S", "T", "U", "V", "W", "X", "Y", "Z">>

Lowers == <<"a", "b", "c", "d", "e", "f", "g", "h", "i", "j", "k", "l", "m",
            "n", "o", "p", "q", "r", "s", "t", "u", "v", "w", "x", "y", "z">>

IsUpper(c) == \E i \in 1..Len(Uppers) : Uppers[i] = c

IsLower(c) == \E i \in 1..Len(Lowers) : Lowers[i] = c

\* \w of the re module, on the characters used here
IsWord(c) == IsUpper(c) \/ IsLower(c) \/ c \in Digits \/ c = "_"

LowerChar(c) ==
    IF IsUpper(c) THEN Lowers[CHOOSE i \in 1..Len(Uppers) : Uppers[i] = c] ELSE c

\* str.lower()
Lower(s) == [i \in 1..Len(s) |-> LowerChar(s[i])]

DigitVal(c) ==
    CASE c = "0" -> 0 [] c = "1" -> 1 [] c = "2" -> 2 [] c = "3" -> 3
      [] c = "4" -> 4 [] c = "5" -> 5 [] c = "6" -> 6 [] c = "7" -> 7
      [] c = "8" -> 8 [] c = "9" -> 9

(***************************************************************************)
(* Generic string operations.                                              *)
(***************************************************************************)
Drop(s, n) == SubSeq(s, n + 1, Len(s))

RECURSIVE Concat(_)
\* "".join(parts)
Concat(parts) ==
    IF parts = <<>> THEN <<>> ELSE Head(parts) \o Concat(Tail(parts))

RECURSIVE Join(_, _)
\* sep.join(parts)
Join(parts, sep) ==
    IF parts = <<>> THEN <<>>
    ELSE IF Len(parts) = 1 THEN parts[1]
    ELSE parts[1] \o sep \o Join(Tail(parts), sep)

RECURSIVE LStrip(_)
LStrip(s) ==
    IF s # <<>> /\ Head(s) \in White THEN LStrip(Tail(s)) ELSE s

RECURSIVE RStrip(_)
RStrip(s) ==
    IF s # <<>> /\ s[Len(s)] \in White THEN RStrip(SubSeq(s, 1, Len(s) - 1)) ELSE s

\* str.strip()
Strip(s) == LStrip(RStrip(s))

RECURSIVE SplitWs(_)
\* str.split(): the maximal runs of non-whitespace characters
SplitWs(s) ==
    LET t == LStrip(s)
        n == IF \E i \in 1..Len(t) : t[i] \in White
             THEN (CHOOSE i \in 1..Len(t) :
                      t[i] \in White /\ \A j \in 1..(i - 1) : t[j] \notin White) - 1
             ELSE Len(t)
    IN  IF t = <<>> THEN <<>>
        ELSE <<SubSeq(t, 1, n)>> \o SplitWs(Drop(t, n))

\* sub in s (substring test)
Contains(s, sub) ==
    \E i \in 0..(Len(s) - Len(sub)) : SubSeq(s, i + 1, i + Len(sub)) = sub

RECURSIVE SplitOn(_, _)
\* re.split(r'[<seps>]', s): the pieces between separator characters
SplitOn(s, seps) ==
    IF \E i \in 1..Len(s) : s[i] \in seps
    THEN LET i == CHOOSE k \in 1..Len(s) :
                     s[k] \in seps /\ \A j \in 1..(k - 1) : s[j] \notin seps
         IN  <<SubSeq(s, 1, i - 1)>> \o SplitOn(Drop(s, i), seps)
    ELSE <<s>>

(***************************************************************************)
(* clean_text                                                              *)
(***************************************************************************)
RECURSIVE DigitRun(_)
\* the number of digits s starts with
DigitRun(s) ==
    IF s # <<>> /\ Head(s) \in Digits THEN 1 + DigitRun(Tail(s)) ELSE 0

\* the length of the match of \[\d+\] at the start of s, 0 when there is none
MarkerLen(s) ==
    IF s # <<>> /\ Head(s) = "["
    THEN LET d == DigitRun(Tail(s))
         IN  IF d >= 1 /\ Len(s) >= d + 2 /\ s[d + 2] = "]" THEN d + 2 ELSE 0
    ELSE 0

RECURSIVE SubMarkers(_)
\* re.sub(r'\[\d+\]', '', s): one left-to-right pass over the input, each
\* match removed and the scan resumed after it
SubMarkers(s) ==
    IF s = <<>> THEN <<>>
    ELSE IF MarkerLen(s) > 0 THEN SubMarkers(Drop(s, MarkerLen(s)))
    ELSE <<Head(s)>> \o SubMarkers(Tail(s))

clean_text(text) == Join(SplitWs(SubMarkers(text)), <<" ">>)

\* whether s still holds a match of \[\d+\]
HasMarker(s) == \E i \in 1..Len(s) : MarkerLen(Drop(s, i - 1)) > 0

HasWhiteRun(s) ==
    \/ \E i \in 1..(Len(s) - 1) : s[i] \in White /\ s[i + 1] \in White
    \/ \E i \in 1..Len(s) : s[i] \in White /\ s[i] # " "
    \/ s # <<>> /\ (Head(s) \in White \/ s[Len(s)] \in White)

(***************************************************************************)
(* fix_glued_names                                                         *)
(***************************************************************************)
RECURSIVE fix_glued_names(_)
fix_glued_names(text) ==
    IF Len(text) < 2 THEN text
    ELSE IF IsLower(text[1]) /\ IsUpper(text[2])
         THEN <<text[1], " ">> \o fix_glued_names(Tail(text))
         ELSE <<text[1]>> \o fix_glued_names(Tail(text))

(***************************************************************************)
(* Function-level harness: clean_text on every short string.               *)
(***************************************************************************)
CleanAlphabet == {"[", "]", "1", " ", "a"}

RECURSIVE StringsUpTo(_, _)
StringsUpTo(alphabet, n) ==
    IF n = 0 THEN {<<>>}
    ELSE LET shorter == StringsUpTo(alphabet, n - 1)
         IN  shorter \cup {Append(s, c) : s \in {t \in shorter : Len(t) = n - 1},
                                          c \in alphabet}

MainIdle ==
    /\ pc = "idle" /\ err = NoErr /\ collection = <<>> /\ prior = <<>>
    /\ ops = <<>> /\ listing = None /\ title_index = None /\ rows = <<>>
    /\ rowIdx = 0 /\ films = <<>> /\ log = <<>>

InitClean ==
    /\ MainIdle
    /\ fn_pc = "ready"
    /\ fn_in \in StringsUpTo(CleanAlphabet, MaxLen)
    /\ fn_out = <<>>

\* clean_text(s)
CleanOnce ==
    /\ fn_pc = "ready"
    /\ fn_out' = <<clean_text(fn_in)>>
    /\ fn_pc' = "once"
    /\ UNCHANGED <<fn_in, mainVars>>

\* clean_text(clean_text(s))
CleanTwice ==
    /\ fn_pc = "once"
    /\ fn_out' = Append(fn_out, clean_text(fn_out[1]))
    /\ fn_pc' = "twice"
    /\ UNCHANGED <<fn_in, mainVars>>

NextClean == CleanOnce \/ CleanTwice

SpecClean == InitClean /\ [][NextClean]_vars

\* C7: clean_text is idempotent, and its output holds no bracketed-integer
\* marker and no run of more than one whitespace character.
C7_CleanTextIdempotent ==
    /\ fn_pc = "twice" => fn_out[2] = fn_out[1]
    /\ fn_pc \in {"once", "twice"} =>
           ~HasMarker(fn_out[1]) /\ ~HasWhiteRun(fn_out[1])

(***************************************************************************)
(* Markup: BeautifulSoup trees.                                            *)
(***************************************************************************)
\* a NavigableString
T(s) == [tag |-> "text", text |-> s, href |-> None, kids |-> <<>>]

\* a Tag without attributes of interest
E(tag, kids) == [tag |-> tag, text |-> <<>>, href |-> None, kids |-> kids]

\* <a href=...>
A(href, kids) == [tag |-> "a", text |-> <<>>, href |-> href, kids |-> kids]

RECURSIVE Strings(_)
\* the strings get_text and stripped_strings go through: the text nodes
\* below a node, in document order; html.parser keeps the contents of style
\* and script elements apart from them
Strings(node) ==
    IF node.tag = "text" THEN <<node.text>>
    ELSE IF node.tag \in {"style", "script"} THEN <<>>
    ELSE LET RECURSIVE Of(_)
             Of(ks) == IF ks = <<>> THEN <<>> ELSE Strings(Head(ks)) \o Of(Tail(ks))
         IN  Of(node.kids)

RECURSIVE KeepNonEmpty(_)
KeepNonEmpty(ss) ==
    IF ss = <<>> THEN <<>>
    ELSE IF Head(ss) = <<>> THEN KeepNonEmpty(Tail(ss))
    ELSE <<Head(ss)>> \o KeepNonEmpty(Tail(ss))

\* Tag.stripped_strings: each string stripped, the empty ones dropped
StrippedStrings(node) ==
    LET ss == Strings(node)
    IN  KeepNonEmpty([i \in 1..Len(ss) |-> Strip(ss[i])])

\* Tag.get_text(sep, strip=True)
GetTextStrip(node, sep) == Join(StrippedStrings(node), sep)

\* Tag.get_text()
GetText(node) == Concat(Strings(node))

RECURSIVE Descendants(_)
\* the nodes below a node, in document order (the order of find and find_all)
Descendants(node) ==
    LET RECURSIVE Of(_)
        Of(ks) == IF ks = <<>> THEN <<>>
                  ELSE <<Head(ks)>> \o Descendants(Head(ks)) \o Of(Tail(ks))
    IN  Of(node.kids)

\* Tag.find(tag): the first descendant with that tag, or None
Find(node, tag) ==
    LET ds == Descendants(node)
    IN  IF \E i \in 1..Len(ds) : ds[i].tag = tag
        THEN Some(ds[CHOOSE i \in 1..Len(ds) :
                        ds[i].tag = tag /\ \A j \in 1..(i - 1) : ds[j].tag # tag])
        ELSE None

RECURSIVE remove_sup_tags(_)
remove_sup_tags(tag) ==
    LET RECURSIVE Of(_)
        Of(ks) == IF ks = <<>> THEN <<>>
                  ELSE IF Head(ks).tag = "sup" THEN Of(Tail(ks))
                  ELSE <<remove_sup_tags(Head(ks))>> \o Of(Tail(ks))
    IN  [tag EXCEPT !.kids = Of(tag.kids)]

(***************************************************************************)
(* The field extractors.                                                   *)
(***************************************************************************)
RECURSIVE FirstChildValue(_, _)
\* the loop of extract_first_value_from_cell over td.children, and its
\* fallback to the whole cell's text
FirstChildValue(ks, whole) ==
    IF ks = <<>> THEN clean_text(whole)
    ELSE LET child == Head(ks)
             text == IF child.tag = "text" THEN Strip(child.text)
                     ELSE GetTextStrip(child, <<" ">>)
         IN  IF child.tag \in {"style", "script"} THEN FirstChildValue(Tail(ks), whole)
             ELSE IF text # <<>> THEN clean_text(text)
             ELSE FirstChildValue(Tail(ks), whole)

extract_first_value_from_cell(td) ==
    LET cell == remove_sup_tags(td)
    IN  FirstChildValue(cell.kids, GetTextStrip(cell, <<" ">>))

extract_director(td) ==
    LET cell == remove_sup_tags(td)
        a_tag == Find(cell, "a")
    IN  IF a_tag # None
        THEN fix_glued_names(clean_text(GetTextStrip(a_tag[1], <<>>)))
        ELSE fix_glued_names(extract_first_value_from_cell(cell))

extract_country(td) ==
    LET cell == remove_sup_tags(td)
        a_tag == Find(cell, "a")
    IN  IF a_tag # None
        THEN fix_glued_names(clean_text(GetTextStrip(a_tag[1], <<>>)))
        ELSE fix_glued_names(extract_first_value_from_cell(cell))

\* whether \b(1[89]\d{2}|20\d{2})\b matches s at position i
YearAt(s, i) ==
    /\ i + 3 <= Len(s)
    /\ \/ s[i] = "1" /\ s[i + 1] \in {"8", "9"}
       \/ s[i] = "2" /\ s[i + 1] = "0"
    /\ s[i + 2] \in Digits /\ s[i + 3] \in Digits
    /\ i = 1 \/ ~IsWord(s[i - 1])
    /\ i + 4 > Len(s) \/ ~IsWord(s[i + 4])

\* int(re.search(r'\b(1[89]\d{2}|20\d{2})\b', s).group(0)), or None
SearchYear(s) ==
    IF \E i \in 1..Len(s) : YearAt(s, i)
    THEN LET i == CHOOSE k \in 1..Len(s) :
                     YearAt(s, k) /\ \A j \in 1..(k - 1) : ~YearAt(s, j)
         IN  Some(1000 * DigitVal(s[i]) + 100 * DigitVal(s[i + 1])
                  + 10 * DigitVal(s[i + 2]) + DigitVal(s[i + 3]))
    ELSE None

extract_release_year(td) ==
    LET cell == remove_sup_tags(td)
        text == clean_text(GetTextStrip(cell, <<" ">>))
        parts == SplitOn(text, {"\n", ";"})
    IN  SearchYear(parts[1])

AmtChars == Digits \cup {",", "."}

\* whether (\$[\d,\.]+) matches s at position i
AmtAt(s, i) == s[i] = "$" /\ i + 1 <= Len(s) /\ s[i + 1] \in AmtChars

RECURSIVE AmtRun(_)
AmtRun(s) == IF s # <<>> /\ Head(s) \in AmtChars THEN 1 + AmtRun(Tail(s)) ELSE 0

\* the text after the amount, and the unit found in it
UnitIn(remaining) ==
    IF Contains(remaining, <<"b", "i", "l", "l", "i", "o", "n">>)
    THEN <<"b", "i", "l", "l", "i", "o", "n">>
    ELSE IF Contains(remaining, <<"m", "i", "l", "l", "i", "o", "n">>)
    THEN <<"m", "i", "l", "l", "i", "o", "n">>
    ELSE <<>>

\* lines 83-94 on the combined text
BoxOfficeOfText(combined_text) ==
    IF \E i \in 1..Len(combined_text) : AmtAt(combined_text, i)
    THEN LET i == CHOOSE k \in 1..Len(combined_text) :
                     AmtAt(combined_text, k)
                     /\ \A j \in 1..(k - 1) : ~AmtAt(combined_text, j)
             n == 1 + AmtRun(Drop(combined_text, i))
             amount == SubSeq(combined_text, i, i + n - 1)
             remaining == Lower(Drop(combined_text, i + n - 1))
         IN  Strip(amount \o <<" ">> \o UnitIn(remaining))
    ELSE Strip(SplitOn(combined_text, {"|", "\n"})[1])

\* " ".join(list(td.stripped_strings))
CombineStrings(cell) == Join(StrippedStrings(cell), <<" ">>)

extract_box_office(td) ==
    LET cell == remove_sup_tags(td)
        joined == CombineStrings(cell)
        replaced == [i \in 1..Len(joined) |->
                        IF joined[i] = "nbsp" THEN " " ELSE joined[i]]
    IN  BoxOfficeOfText(clean_text(replaced))

(***************************************************************************)
(* Function-level harness: extract_release_year on release-date cells.     *)
(***************************************************************************)
RECURSIVE SeqsUpTo(_, _)
\* the sequences of at most n elements of pool
SeqsUpTo(pool, n) ==
    IF n = 0 THEN {<<>>}
    ELSE LET shorter == SeqsUpTo(pool, n - 1)
         IN  shorter \cup {Append(s, x) : s \in {t \in shorter : Len(t) = n - 1},
                                          x \in pool}

YearPieces ==
    { <<"1", "9", "7", "5">>, <<"2", "0", "0", "1">>, <<"1", "7", "9", "9">>,
      <<"T", "B", "A">>, <<"\n">>, <<";">>, <<" ">>, <<"5">>, <<"[", "3", "]">> }

\* a release-date cell: one text node, then possibly a footnote, a line break
\* and a second date
YearCells ==
    { E("td", <<T(Concat(ps))>> \o tail) :
        ps \in SeqsUpTo(YearPieces, MaxPieces),
        tail \in { <<>>,
                   <<E("sup", <<T(<<"[", "1", "9", "9", "9", "]">>)>>)>>,
                   <<E("br", <<>>), T(<<"1", "9", "7", "6">>)>> } }

InitYear ==
    /\ MainIdle
    /\ fn_pc = "ready"
    /\ fn_in \in YearCells
    /\ fn_out = <<>>

YearApply ==
    /\ fn_pc = "ready"
    /\ fn_out' = <<extract_release_year(fn_in)>>
    /\ fn_pc' = "done"
    /\ UNCHANGED <<fn_in, mainVars>>

NextYear == YearApply

SpecYear == InitYear /\ [][NextYear]_vars

\* the text of the release-date cell, footnote elements removed
YearCellText(td) == GetTextStrip(remove_sup_tags(td), <<" ">>)

\* C9: the year is looked for only in the first segment of the cell text,
\* segments being separated by a newline or a semicolon; the result is that
\* segment's first year in 1800..2099, or null when it has none, even if a
\* later segment has one.
C9_YearFromFirstSegment ==
    fn_pc = "done" =>
        fn_out[1] = SearchYear(clean_text(SplitOn(YearCellText(fn_in), {"\n", ";"})[1]))

(***************************************************************************)
(* Function-level harness: extract_box_office on box-office cells.         *)
(***************************************************************************)
BoxFragments ==
    { T(<<"$", "2">>), T(<<".", "2", "6", "4">>),
      T(<<" ", "b", "i", "l", "l", "i", "o", "n">>),
      T(<<"nbsp", "m", "i", "l", "l", "i", "o", "n">>),
      T(<<"$", "1", ",", "0", "0", "0">>),
      T(<<"U", "S">>), T(<<"$">>),
      E("sup", <<T(<<"[", "1", "]">>)>>),
      E("span", <<T(<<"B", "i", "l", "l", "i", "o", "n", "|", "x">>)>>) }

BoxCells == { E("td", fs) : fs \in SeqsUpTo(BoxFragments, MaxFrags) }

InitBox ==
    /\ MainIdle
    /\ fn_pc = "ready"
    /\ fn_in \in BoxCells
    /\ fn_out = <<>>

BoxApply ==
    /\ fn_pc = "ready"
    /\ fn_out' = <<extract_box_office(fn_in)>>
    /\ fn_pc' = "done"
    /\ UNCHANGED <<fn_in, mainVars>>

NextBox == BoxApply

SpecBox == InitBox /\ [][NextBox]_vars

\* the cell of the spec's example: fragments "$2", ".264", " billion"
BoxExampleCell ==
    E("td", << T(<<"$", "2">>), T(<<".", "2", "6", "4">>),
               T(<<" ", "b", "i", "l", "l", "i", "o", "n">>) >>)

\* the cell's text with its fragments put back together as they were split
BoxReassembled(td) == clean_text(Concat(Strings(remove_sup_tags(td))))

\* C8: an amount split across text fragments is reassembled: fragments "$2",
\* ".264", " billion" give "$2.264 billion", and in general the result is the
\* full "$" amount across fragment boundaries followed by its unit.
C8_BoxOfficeReassembled ==
    fn_pc = "done" =>
        /\ fn_in = BoxExampleCell =>
               fn_out[1] = <<"$", "2", ".", "2", "6", "4", " ",
                             "b", "i", "l", "l", "i", "o", "n">>
        /\ (\E i \in 1..Len(BoxReassembled(fn_in)) : AmtAt(BoxReassembled(fn_in), i)) =>
               fn_out[1] = BoxOfficeOfText(BoxReassembled(fn_in))

(***************************************************************************)
(* get_film_info: the parse of a detail page.                              *)
(*                                                                         *)
(* A detail page is the sequence of its tables in document order; a table  *)
(* is [class, trs], class being the class attribute (None when absent); a  *)
(* row is [th, td], the row's first header cell and first data cell (None  *)
(* when the row has none).                                                 *)
(***************************************************************************)
NoInfo ==
    [director |-> None, release_year |-> None, country |-> None, box_office |-> None]

\* class_=lambda c: c and "infobox" in c
IsInfobox(table) ==
    table.class # None /\ Contains(table.class[1], <<"i", "n", "f", "o", "b", "o", "x">>)

\* film_soup.find("table", class_=...): the first such table, or None
FindInfobox(film_soup) ==
    IF \E i \in 1..Len(film_soup) : IsInfobox(film_soup[i])
    THEN Some(film_soup[CHOOSE i \in 1..Len(film_soup) :
                 IsInfobox(film_soup[i])
                 /\ \A j \in 1..(i - 1) : ~IsInfobox(film_soup[j])])
    ELSE None

\* header.get_text(strip=True).lower()
HeaderText(row) == Lower(GetTextStrip(row.th[1], <<>>))

\* a row with both a header cell and a data cell (lines 121-127)
Qualifies(row) == row.th # None /\ row.td # None

\* the if/elif chain of lines 129-136: the field a header text assigns
FieldOfHeader(header_text) ==
    IF Contains(header_text, <<"d", "i", "r", "e", "c", "t", "e", "d", " ", "b", "y">>) THEN "director"
    ELSE IF Contains(header_text, <<"r", "e", "l", "e", "a", "s", "e", " ", "d", "a", "t", "e">>) THEN "release_year"
    ELSE IF header_text \in {<<"c", "o", "u", "n", "t", "r", "y">>, <<"c", "o", "u", "n", "t", "r", "i", "e", "s">>, <<"c", "o", "u", "n", "t", "r", "y", " ", "o", "f", " ", "o", "r", "i", "g", "i", "n">>}
        THEN "country"
    ELSE IF Contains(header_text, <<"b", "o", "x", " ", "o", "f", "f", "i", "c", "e">>) THEN "box_office"
    ELSE "none"

\* the value a field's extractor gives for a data cell
ExtractField(field, data_cell) ==
    CASE field = "director" -> Some(extract_director(data_cell))
      [] field = "release_year" -> extract_release_year(data_cell)
      [] field = "country" -> Some(extract_country(data_cell))
      [] field = "box_office" -> Some(extract_box_office(data_cell))

\* a variant that keeps a field's first value
InfoStepKeepFirst(info, row) ==
    IF ~Qualifies(row) THEN info
    ELSE LET field == FieldOfHeader(HeaderText(row))
         IN  IF field = "none" \/ info[field] # None THEN info
             ELSE [info EXCEPT ![field] = ExtractField(field, row.td[1])]

\* one iteration of the loop of lines 120-136
InfoStep(info, row) ==
    IF ~Qualifies(row) THEN info
    ELSE LET field == FieldOfHeader(HeaderText(row))
         IN  IF field = "none" THEN info
             ELSE [info EXCEPT ![field] = ExtractField(field, row.td[1])]

RECURSIVE InfoLoop(_, _)
InfoLoop(info, trs) ==
    IF trs = <<>> THEN info ELSE InfoLoop(InfoStep(info, Head(trs)), Tail(trs))

\* lines 106-137 on the parsed response body
ParseFilmPage(film_soup) ==
    LET infobox == FindInfobox(film_soup)
    IN  IF infobox = None THEN NoInfo ELSE InfoLoop(NoInfo, infobox[1].trs)

Fields == {"director", "release_year", "country", "box_office"}

(***************************************************************************)
(* Function-level harness: the detail parse on infobox pages.              *)
(***************************************************************************)
Th(s) == Some(E("th", <<T(s)>>))

Td(kids) == Some(E("td", kids))

InfoRows ==
    { [th |-> Th(<<"D", "i", "r", "e", "c", "t", "e", "d", " ", "b", "y">>), td |-> Td(<<A(Some(<<"/", "c">>), <<T(<<"J", "o", "C", "o">>)>>)>>)],
      [th |-> Th(<<"D", "i", "r", "e", "c", "t", "e", "d", " ", "b", "y">>), td |-> Td(<<T(<<"A", "l">>)>>)],
      [th |-> Th(<<"R", "e", "l", "e", "a", "s", "e", " ", "d", "a", "t", "e">>), td |-> Td(<<T(<<"1", "9", "9", "7">>)>>)],
      [th |-> Th(<<"R", "e", "l", "e", "a", "s", "e", " ", "d", "a", "t", "e", "s">>), td |-> Td(<<T(<<"T", "B", "A">>)>>)],
      [th |-> Th(<<"C", "o", "u", "n", "t", "r", "y">>), td |-> Td(<<T(<<"U", "S">>)>>)],
      [th |-> Th(<<"C", "o", "u", "n", "t", "r", "i", "e", "s">>), td |-> Td(<<A(Some(<<"/", "u">>), <<T(<<"U", "K">>)>>)>>)],
      [th |-> Th(<<"B", "o", "x", " ", "o", "f", "f", "i", "c", "e">>), td |-> Td(<<T(<<"$", "2", " ", "b", "i", "l", "l", "i", "o", "n">>)>>)],
      [th |-> Th(<<"B", "o", "x", " ", "o", "f", "f", "i", "c", "e">>), td |-> Td(<<T(<<"$", "9", " ", "m", "i", "l", "l", "i", "o", "n">>)>>)],
      [th |-> None, td |-> Td(<<T(<<"A", "l">>)>>)],
      [th |-> Th(<<"D", "i", "r", "e", "c", "t", "e", "d", " ", "b", "y">>), td |-> None],
      [th |-> Th(<<"B", "u", "d", "g", "e", "t">>), td |-> Td(<<T(<<"$", "9", " ", "m", "i", "l", "l", "i", "o", "n">>)>>)] }

InfoboxClass == Some(<<"i", "n", "f", "o", "b", "o", "x", " ", "v", "e", "v", "e", "n", "t">>)

PlainClass == Some(<<"w", "i", "k", "i", "t", "a", "b", "l", "e">>)

InfoPages ==
    { <<[class |-> InfoboxClass, trs |-> trs]>> : trs \in SeqsUpTo(InfoRows, MaxInfoRows) }
    \cup { <<>>,
           <<[class |-> None, trs |-> <<>>]>>,
           <<[class |-> PlainClass, trs |-> <<>>],
             [class |-> InfoboxClass, trs |-> <<>>]>> }

InitInfo ==
    /\ MainIdle
    /\ fn_pc = "ready"
    /\ fn_in \in InfoPages
    /\ fn_out = <<>>

InfoApply ==
    /\ fn_pc = "ready"
    /\ fn_out' = <<ParseFilmPage(fn_in)>>
    /\ fn_pc' = "done"
    /\ UNCHANGED <<fn_in, mainVars>>

NextInfo == InfoApply

SpecInfo == InitInfo /\ [][NextInfo]_vars

\* the rows of the page's infobox
InfoboxRows(page) ==
    IF FindInfobox(page) = None THEN <<>> ELSE FindInfobox(page)[1].trs

\* the positions of the qualifying rows whose header selects the field
RowsOf(page, field) ==
    { i \in 1..Len(InfoboxRows(page)) :
        /\ Qualifies(InfoboxRows(page)[i])
        /\ FieldOfHeader(HeaderText(InfoboxRows(page)[i])) = field }

Least(S) == CHOOSE x \in S : \A y \in S : x <= y

Greatest(S) == CHOOSE x \in S : \A y \in S : x >= y

ValueAt(page, field, i) == ExtractField(field, InfoboxRows(page)[i].td[1])

\* C4 as stated: for each field, the value of the earliest qualifying row
\* matching the field's pattern is final; later matching rows do not change
\* it.
C4_FirstRowWins ==
    fn_pc = "done" =>
        \A f \in Fields :
            RowsOf(fn_in, f) # {} =>
                fn_out[1][f] = ValueAt(fn_in, f, Least(RowsOf(fn_in, f)))

\* C4 as amended: for each field, the value is the one extracted from the
\* last qualifying row whose header selects the field (null when that row
\* yields none), and null when no row selects the field.
C4_LastRowWins ==
    fn_pc = "done" =>
        \A f \in Fields :
            fn_out[1][f] = IF RowsOf(fn_in, f) = {} THEN None
                           ELSE ValueAt(fn_in, f, Greatest(RowsOf(fn_in, f)))

\* two qualifying rows select the same field with different values
C4_Witness ==
    /\ fn_pc = "done"
    /\ \E f \in Fields :
          /\ Cardinality(RowsOf(fn_in, f)) >= 2
          /\ ValueAt(fn_in, f, Least(RowsOf(fn_in, f)))
                 # ValueAt(fn_in, f, Greatest(RowsOf(fn_in, f)))
          /\ fn_out[1][f] = ValueAt(fn_in, f, Greatest(RowsOf(fn_in, f)))

(***************************************************************************)
(* The title and link of a listing row (lines 177-194).                    *)
(***************************************************************************)
\* the first link of the cell, whether or not the cell has an italic element
TitleAndLinkFallThrough(title_cell) ==
    LET i_tag == Find(title_cell, "i")
        in_i == IF i_tag = None THEN None ELSE Find(i_tag[1], "a")
        a_tag == IF in_i # None THEN in_i ELSE Find(title_cell, "a")
    IN  IF a_tag # None
        THEN [title |-> clean_text(GetTextStrip(a_tag[1], <<>>)), link |-> a_tag[1].href]
        ELSE [title |-> clean_text(GetTextStrip(title_cell, <<>>)), link |-> None]

TitleAndLink(title_cell) ==
    LET i_tag == Find(title_cell, "i")
    IN  IF i_tag # None
        THEN LET a_tag == Find(i_tag[1], "a")
             IN  IF a_tag # None
                 THEN [title |-> clean_text(GetTextStrip(a_tag[1], <<>>)),
                       link |-> a_tag[1].href]
                 ELSE [title |-> clean_text(GetTextStrip(i_tag[1], <<>>)),
                       link |-> None]
        ELSE LET a_tag == Find(title_cell, "a")
             IN  IF a_tag # None
                 THEN [title |-> clean_text(GetTextStrip(a_tag[1], <<>>)),
                       link |-> a_tag[1].href]
                 ELSE [title |-> clean_text(GetTextStrip(title_cell, <<>>)),
                       link |-> None]

(***************************************************************************)
(* Function-level harness: the title and link of title cells.              *)
(***************************************************************************)
TitleNodes ==
    { T(<<"X", " ">>),
      A(Some(<<"/", "a">>), <<T(<<"A", "v">>)>>),
      E("i", <<A(Some(<<"/", "b">>), <<T(<<"B", "o">>)>>)>>),
      E("i", <<T(<<"J", "a">>)>>),
      A(Some(<<"/", "c">>), <<E("i", <<T(<<"C", "o">>)>>)>>),
      A(None, <<T(<<"n">>)>>),
      E("span", <<A(Some(<<"#", "n">>), <<T(<<"[", "1", "]">>)>>)>>) }

TitleCells == { E("td", ns) : ns \in SeqsUpTo(TitleNodes, MaxCellNodes) }

InitTitle ==
    /\ MainIdle
    /\ fn_pc = "ready"
    /\ fn_in \in TitleCells
    /\ fn_out = <<>>

TitleApply ==
    /\ fn_pc = "ready"
    /\ fn_out' = <<TitleAndLink(fn_in)>>
    /\ fn_pc' = "done"
    /\ UNCHANGED <<fn_in, mainVars>>

NextTitle == TitleApply

SpecTitle == InitTitle /\ [][NextTitle]_vars

\* the elements of a cell with a given tag, in document order
Elements(cell, tag) ==
    LET ds == Descendants(cell)
    IN  { i \in 1..Len(ds) : ds[i].tag = tag }

\* the italic elements that contain a link
ItalicsWithLink(cell) ==
    { i \in Elements(cell, "i") : Find(Descendants(cell)[i], "a") # None }

LinkOf(a_tag) ==
    [title |-> clean_text(GetTextStrip(a_tag, <<>>)), link |-> a_tag.href]

\* C5 as stated: (a) an italic element containing a link gives that link's
\* text and href; (b) otherwise a link of the cell gives its text and href,
\* also when the cell has an italic element without a link; (c) otherwise the
\* cell's trimmed text and no link.  Three cases are read in the statement's
\* favour and left open: several italic elements of which the first has no
\* link, a first link that wraps an italic element, and the text of a cell
\* that has an italic element and no link.
C5_PriorityAsStated ==
    fn_pc = "done" =>
        IF ItalicsWithLink(fn_in) # {}
        THEN Least(ItalicsWithLink(fn_in)) = Least(Elements(fn_in, "i")) =>
                 fn_out[1] =
                     LinkOf(Find(Descendants(fn_in)[Least(ItalicsWithLink(fn_in))], "a")[1])
        ELSE IF Find(fn_in, "a") # None
        THEN Find(Find(fn_in, "a")[1], "i") = None =>
                 fn_out[1] = LinkOf(Find(fn_in, "a")[1])
        ELSE /\ fn_out[1].link = None
             /\ Elements(fn_in, "i") = {} =>
                    fn_out[1].title = clean_text(GetTextStrip(fn_in, <<>>))

\* C5 as amended: the first italic element of the cell decides.  When it
\* contains a link, the title and link are that link's text and href; when it
\* contains none, the title is the italic element's text and there is no link,
\* whatever links the cell has elsewhere.  A cell without an italic element
\* gives its first link's text and href, or else its trimmed text and no link.
C5_FirstItalicDecides ==
    fn_pc = "done" =>
        LET its == Elements(fn_in, "i")
            first_i == Descendants(fn_in)[Least(its)]
        IN  /\ (its # {} /\ Find(first_i, "a") # None) =>
                   fn_out[1] = LinkOf(Find(first_i, "a")[1])
            /\ (its # {} /\ Find(first_i, "a") = None) =>
                   fn_out[1] = [title |-> clean_text(GetTextStrip(first_i, <<>>)),
                                link |-> None]
            /\ (its = {} /\ Find(fn_in, "a") # None) =>
                   fn_out[1] = LinkOf(Find(fn_in, "a")[1])
            /\ (its = {} /\ Find(fn_in, "a") = None) =>
                   fn_out[1] = [title |-> clean_text(GetTextStrip(fn_in, <<>>)),
                                link |-> None]

\* a cell with an italic element without a link and a link outside it
C5_Witness ==
    /\ fn_pc = "done"
    /\ Elements(fn_in, "i") # {}
    /\ ItalicsWithLink(fn_in) = {}
    /\ Find(fn_in, "a") # None
    /\ Find(fn_in, "a")[1].href # None
    /\ fn_out[1].link = None

(***************************************************************************)
(* extract_films and the __main__ block.                                   *)
(*                                                                         *)
(* A listing page is the sequence of its tables [class, caption, trs]; a   *)
(* tr is the sequence of its cells (th or td nodes).  "nbhy" stands for    *)
(* the one character U+2011 of the caption test.                           *)
(***************************************************************************)
\* soup.find_all("table", class_="wikitable")
IsWikitable(table) ==
    /\ table.class # None
    /\ \E i \in 1..Len(SplitWs(table.class[1])) :
           SplitWs(table.class[1])[i] = <<"w", "i", "k", "i", "t", "a", "b", "l", "e">>

WikiTables(soup) == SelectSeq(soup, IsWikitable)

\* caption and "highest-grossing films" in caption.get_text().lower()
CaptionMatches(table) ==
    /\ table.caption # None
    /\ Contains(Lower(GetText(table.caption[1])), <<"h", "i", "g", "h", "e", "s", "t", "nbhy", "g", "r", "o", "s", "s", "i", "n", "g", " ", "f", "i", "l", "m", "s">>)

\* lines 152-159: the table with the caption, else the first one, else None
TargetTable(tables) ==
    IF \E i \in 1..Len(tables) : CaptionMatches(tables[i])
    THEN Some(tables[CHOOSE i \in 1..Len(tables) :
                 CaptionMatches(tables[i])
                 /\ \A j \in 1..(i - 1) : ~CaptionMatches(tables[j])])
    ELSE IF tables # <<>> THEN Some(tables[1])
    ELSE None

\* lines 163-168: the 0-based index of the first header cell containing
\* "title", or None
TitleIndex(header_cells) ==
    LET headers_list == [i \in 1..Len(header_cells) |->
                            Lower(GetTextStrip(header_cells[i], <<>>))]
        hits == { i \in 1..Len(headers_list) : Contains(headers_list[i], <<"t", "i", "t", "l", "e">>) }
    IN  IF hits = {} THEN None
        ELSE Some((CHOOSE i \in hits : \A j \in hits : i <= j) - 1)

\* lines 161-162 raise AttributeError when no table was found or the table
\* has no tr
ListingRaises(soup) ==
    \/ TargetTable(WikiTables(soup)) = None
    \/ TargetTable(WikiTables(soup))[1].trs = <<>>

\* line 173 with a title index: the row is skipped
Skipped(cells, ti) == cells = <<>> \/ Len(cells) <= ti[1]

\* lines 195-199
NewFilm(film_title) ==
    [title |-> Some(film_title), director |-> None, release_year |-> None,
     country |-> None, box_office |-> None]

\* lines 204-208
Merged(film_data, extra_info) ==
    [film_data EXCEPT !.director = extra_info.director,
                      !.release_year = extra_info.release_year,
                      !.country = extra_info.country,
                      !.box_office = extra_info.box_office]

\* requests.get + get_film_info on a response that arrived: the status is not
\* looked at
get_film_info(response) == ParseFilmPage(response.soup)

\* if film_link: (a present, non-empty href)
HasLink(film_link) == film_link # None /\ film_link[1] # <<>>

(***************************************************************************)
(* The inputs of a run.                                                    *)
(***************************************************************************)
OldFilm(n) ==
    [_id |-> n, title |-> Some(<<"O", "l", "d">>), director |-> Some(<<"A", "l">>),
     release_year |-> Some(1990), country |-> None, box_office |-> None]

\* what earlier runs left in the collection
PriorCollections == { [i \in 1..n |-> OldFilm(i)] : n \in 0..MaxPrior }

Cell(kids) == E("td", kids)

HeaderRows ==
    { <<E("th", <<T(<<"R", "a", "n", "k">>)>>), E("th", <<T(<<"T", "i", "t", "l", "e">>)>>)>>,
      <<E("th", <<T(<<"T", "i", "t", "l", "e">>)>>)>>,
      <<E("th", <<T(<<"R", "a", "n", "k">>)>>), E("th", <<T(<<"P", "e", "a", "k">>)>>)>> }

ListingRows ==
    { <<Cell(<<T(<<"1">>)>>), Cell(<<E("i", <<A(Some(<<"/", "a">>), <<T(<<"A", "v">>)>>)>>)>>)>>,
      <<Cell(<<T(<<"2">>)>>), Cell(<<A(Some(<<"/", "b">>), <<T(<<"B", "o">>)>>)>>)>>,
      <<Cell(<<T(<<"3">>)>>), Cell(<<T(<<"C", "o">>)>>)>>,
      <<Cell(<<T(<<"4">>)>>), Cell(<<E("i", <<T(<<"J", "a">>)>>), A(Some(<<"/", "n">>), <<T(<<"n">>)>>)>>)>>,
      <<Cell(<<T(<<"5">>)>>)>>,
      <<>> }

WikiClass == Some(<<"w", "i", "k", "i", "t", "a", "b", "l", "e", " ", "s", "o", "r", "t", "a", "b", "l", "e">>)

ListingTables(caption) ==
    { [class |-> WikiClass, caption |-> caption, trs |-> <<h>> \o rs] :
        h \in HeaderRows, rs \in SeqsUpTo(ListingRows, MaxRows) }

DecoyTable ==
    [class |-> WikiClass, caption |-> Some(E("caption", <<T(<<"O", "t", "h", "e", "r">>)>>)),
     trs |-> <<<<E("th", <<T(<<"T", "i", "t", "l", "e">>)>>)>>, <<Cell(<<T(<<"C", "o">>)>>)>>>>]

ListingPages ==
    { <<>>,
      <<[class |-> Some(<<"i", "n", "f", "o", "b", "o", "x", " ", "v", "e", "v", "e", "n", "t">>), caption |-> None, trs |-> <<>>]>>,
      <<[class |-> WikiClass, caption |-> None, trs |-> <<>>]>> }
    \cup { <<t>> : t \in ListingTables(None) }
    \cup { <<DecoyTable, t>> : t \in ListingTables(Some(E("caption", <<T(<<"H", "i", "g", "h", "e", "s", "t", "nbhy", "g", "r", "o", "s", "s", "i", "n", "g", " ", "f", "i", "l", "m", "s", "[", "1", "]">>)>>))) }

FullInfobox ==
    <<[class |-> InfoboxClass,
       trs |-> << [th |-> Th(<<"D", "i", "r", "e", "c", "t", "e", "d", " ", "b", "y">>),
                   td |-> Td(<<A(Some(<<"/", "c">>), <<T(<<"J", "o", "C", "o">>)>>)>>)],
                  [th |-> Th(<<"R", "e", "l", "e", "a", "s", "e", " ", "d", "a", "t", "e">>), td |-> Td(<<T(<<"1", "9", "9", "7">>)>>)],
                  [th |-> Th(<<"C", "o", "u", "n", "t", "r", "y">>), td |-> Td(<<T(<<"U", "S">>)>>)],
                  [th |-> Th(<<"B", "o", "x", " ", "o", "f", "f", "i", "c", "e">>), td |-> Td(<<T(<<"$", "2", " ", "b", "i", "l", "l", "i", "o", "n">>)>>)] >>]>>

PartialInfobox ==
    <<[class |-> InfoboxClass,
       trs |-> << [th |-> Th(<<"D", "i", "r", "e", "c", "t", "e", "d", " ", "b", "y">>), td |-> None],
                  [th |-> Th(<<"R", "e", "l", "e", "a", "s", "e", " ", "d", "a", "t", "e", "s">>), td |-> Td(<<T(<<"T", "B", "A">>)>>)],
                  [th |-> Th(<<"C", "o", "u", "n", "t", "r", "y">>), td |-> Td(<<T(<<"U", "K">>)>>)] >>]>>

DetailPages == { <<>>, FullInfobox, PartialInfobox }

\* what requests.get gives for a detail page: an exception, or a response
\* with a status and a body
DetailResponses ==
    { [raises |-> TRUE, status |-> 0, soup |-> <<>>] }
    \cup { [raises |-> FALSE, status |-> st, soup |-> page] :
             st \in {200, 404}, page \in DetailPages }

(***************************************************************************)
(* The run.                                                                *)
(***************************************************************************)
Init ==
    /\ pc = "start"
    /\ err = NoErr
    /\ prior \in PriorCollections
    /\ collection = prior
    /\ ops = <<>>
    /\ listing = None
    /\ title_index = None
    /\ rows = <<>>
    /\ rowIdx = 0
    /\ films = <<>>
    /\ log = <<>>
    /\ fn_pc = "idle" /\ fn_in = <<>> /\ fn_out = <<>>

Abort(exception) == pc' = "aborted" /\ err' = exception

\* a delete that removes one document only
DeleteOne ==
    /\ pc = "start"
    /\ collection' = IF collection = <<>> THEN <<>> ELSE Tail(collection)
    /\ ops' = Append(ops, "delete_many")
    /\ pc' = "extract"
    /\ UNCHANGED <<err, prior, listing, title_index, rows, rowIdx, films, log, fnVars>>

\* a delete that removes nothing
DeleteNone ==
    /\ pc = "start"
    /\ ops' = Append(ops, "delete_many")
    /\ pc' = "extract"
    /\ UNCHANGED <<collection, err, prior, listing, title_index, rows, rowIdx,
                   films, log, fnVars>>

\* line 224: collection.delete_many({})
DeleteMany ==
    /\ pc = "start"
    /\ collection' = <<>>
    /\ ops' = Append(ops, "delete_many")
    /\ pc' = "extract"
    /\ UNCHANGED <<err, prior, listing, title_index, rows, rowIdx, films, log, fnVars>>

\* line 224: the server cannot be reached (the client connects lazily)
DeleteManyFails ==
    /\ pc = "start"
    /\ Abort("ServerSelectionTimeoutError")
    /\ UNCHANGED <<collection, ops, prior, listing, title_index, rows, rowIdx,
                   films, log, fnVars>>

\* line 147: requests.get raises
FetchListingFails ==
    /\ pc = "extract"
    /\ Abort("ConnectionError")
    /\ UNCHANGED <<collection, ops, prior, listing, title_index, rows, rowIdx,
                   films, log, fnVars>>

\* lines 147-170: the listing arrives (whatever its status) and is parsed up
\* to the row loop
FetchListing ==
    /\ pc = "extract"
    /\ \E soup \in ListingPages :
          /\ listing' = Some(soup)
          /\ IF ListingRaises(soup)
             THEN /\ Abort("AttributeError")
                  /\ UNCHANGED <<title_index, rows, rowIdx>>
             ELSE LET target_table == TargetTable(WikiTables(soup))[1]
                  IN  /\ title_index' = TitleIndex(Head(target_table.trs))
                      /\ rows' = Tail(target_table.trs)
                      /\ rowIdx' = 1
                      /\ pc' = "rows"
                      /\ err' = err
    /\ UNCHANGED <<collection, ops, prior, films, log, fnVars>>

InLoop == pc = "rows" /\ rowIdx <= Len(rows)

\* line 173: a row without cells, or too short for the title column
SkipRow ==
    /\ InLoop
    /\ \/ rows[rowIdx] = <<>>
       \/ title_index # None /\ Skipped(rows[rowIdx], title_index)
    /\ rowIdx' = rowIdx + 1
    /\ UNCHANGED <<pc, err, collection, ops, prior, listing, title_index, rows,
                   films, log, fnVars>>

\* line 173: len(cells) <= None raises TypeError
RowTypeError ==
    /\ InLoop
    /\ rows[rowIdx] # <<>>
    /\ title_index = None
    /\ Abort("TypeError")
    /\ UNCHANGED <<collection, ops, prior, listing, title_index, rows, rowIdx,
                   films, log, fnVars>>

Processed == InLoop /\ title_index # None /\ ~Skipped(rows[rowIdx], title_index)

CurrentTitle == TitleAndLink(rows[rowIdx][title_index[1] + 1])

\* lines 176-212 for a row without a link
AppendRowNoLink ==
    /\ Processed
    /\ ~HasLink(CurrentTitle.link)
    /\ films' = Append(films, NewFilm(CurrentTitle.title))
    /\ log' = Append(log, [row |-> rowIdx, link |-> CurrentTitle.link,
                           resp |-> None, record |-> NewFilm(CurrentTitle.title)])
    /\ rowIdx' = rowIdx + 1
    /\ UNCHANGED <<pc, err, collection, ops, prior, listing, title_index, rows, fnVars>>

\* a variant in which the exception of the detail fetch is not caught
AppendRowWithDetailUncaught ==
    /\ Processed
    /\ HasLink(CurrentTitle.link)
    /\ \E response \in DetailResponses :
          IF response.raises
          THEN /\ Abort("ConnectionError")
               /\ UNCHANGED <<films, log, rowIdx>>
          ELSE LET film_data == Merged(NewFilm(CurrentTitle.title),
                                       get_film_info(response))
               IN  /\ films' = Append(films, film_data)
                   /\ log' = Append(log, [row |-> rowIdx, link |-> CurrentTitle.link,
                                          resp |-> Some(response), record |-> film_data])
                   /\ rowIdx' = rowIdx + 1
                   /\ UNCHANGED <<pc, err>>
    /\ UNCHANGED <<collection, ops, prior, listing, title_index, rows, fnVars>>

\* lines 176-212 for a row with a link: the detail page is fetched and
\* merged, or the exception is caught and printed
AppendRowWithDetail ==
    /\ Processed
    /\ HasLink(CurrentTitle.link)
    /\ \E response \in DetailResponses :
          LET film_data == IF response.raises THEN NewFilm(CurrentTitle.title)
                           ELSE Merged(NewFilm(CurrentTitle.title),
                                       get_film_info(response))
          IN  /\ films' = Append(films, film_data)
              /\ log' = Append(log, [row |-> rowIdx, link |-> CurrentTitle.link,
                                     resp |-> Some(response), record |-> film_data])
    /\ rowIdx' = rowIdx + 1
    /\ UNCHANGED <<pc, err, collection, ops, prior, listing, title_index, rows, fnVars>>

Returned == pc = "rows" /\ rowIdx > Len(rows)

\* the documents of a batch as stored: each gets a fresh _id
Stored(batch, first_id) ==
    [k \in 1..Len(batch) |->
        [_id |-> first_id + k - 1, title |-> batch[k].title,
         director |-> batch[k].director, release_year |-> batch[k].release_year,
         country |-> batch[k].country, box_office |-> batch[k].box_office]]

\* line 228 with an empty list: insert_many raises InvalidOperation
InsertManyEmpty ==
    /\ Returned
    /\ films = <<>>
    /\ ops' = Append(ops, "insert_many")
    /\ Abort("InvalidOperation")
    /\ UNCHANGED <<collection, prior, listing, title_index, rows, rowIdx, films,
                   log, fnVars>>

\* line 228: the insert fails; an ordered insert keeps what it wrote before
\* the failure
InsertManyFails ==
    /\ Returned
    /\ films # <<>>
    /\ \E written \in 0..Len(films) :
          collection' = collection
                          \o SubSeq(Stored(films, Len(prior) + 1), 1, written)
    /\ ops' = Append(ops, "insert_many")
    /\ Abort("BulkWriteError")
    /\ UNCHANGED <<prior, listing, title_index, rows, rowIdx, films, log, fnVars>>

\* line 228: collection.insert_many(films_list)
InsertMany ==
    /\ Returned
    /\ films # <<>>
    /\ collection' = collection \o Stored(films, Len(prior) + 1)
    /\ ops' = Append(ops, "insert_many")
    /\ pc' = "inserted"
    /\ UNCHANGED <<err, prior, listing, title_index, rows, rowIdx, films, log, fnVars>>

\* lines 229-233: the count and the stored documents are printed
PrintDocuments ==
    /\ pc = "inserted"
    /\ pc' = "done"
    /\ UNCHANGED <<err, collection, ops, prior, listing, title_index, rows, rowIdx,
                   films, log, fnVars>>

Next ==
    \/ DeleteMany
    \/ DeleteManyFails
    \/ FetchListingFails
    \/ FetchListing
    \/ SkipRow
    \/ RowTypeError
    \/ AppendRowNoLink
    \/ AppendRowWithDetail
    \/ InsertManyEmpty
    \/ InsertManyFails
    \/ InsertMany
    \/ PrintDocuments

Spec == Init /\ [][Next]_vars

(***************************************************************************)
(* Properties of the run.                                                  *)
(***************************************************************************)
\* the row reaches the title column
ReachesTitle(row) == title_index # None /\ ~Skipped(row, title_index)

\* the positions, in order, of the rows among the first n that reach the
\* title column
Reaching(n) ==
    SelectSeq([i \in 1..n |-> i], LAMBDA i : ReachesTitle(rows[i]))

TitleOfRow(r) == TitleAndLink(rows[r][title_index[1] + 1]).title

\* the detail fetch of the k-th appended film threw
Threw(k) == log[k].resp # None /\ log[k].resp[1].raises

\* the detail fetch of the k-th appended film was answered with a status
\* that is no success
NonSuccess(k) ==
    /\ log[k].resp # None
    /\ ~log[k].resp[1].raises
    /\ log[k].resp[1].status \notin 200..299

EnrichmentNull(film) ==
    /\ film.director = None /\ film.release_year = None
    /\ film.country = None /\ film.box_office = None

WithoutId(doc) ==
    [title |-> doc.title, director |-> doc.director,
     release_year |-> doc.release_year, country |-> doc.country,
     box_office |-> doc.box_office]

PriorIds == { prior[i]._id : i \in 1..Len(prior) }

NoPriorDocument == \A i \in 1..Len(collection) : collection[i]._id \notin PriorIds

\* C1: a film whose detail fetch throws is still appended, with its title
\* and all four detail fields null; every row before the loop's position that
\* reaches the title column has its record, in order, whether or not a fetch
\* threw; no record changes after it was appended; and no exception of a
\* detail fetch ends the run.
C1_DetailFailureIsolated ==
    /\ Len(films) = Len(log)
    /\ [k \in 1..Len(log) |-> log[k].row] = Reaching(rowIdx - 1)
    /\ \A k \in 1..Len(films) :
          /\ films[k] = log[k].record
          /\ Threw(k) => films[k] = NewFilm(TitleOfRow(log[k].row))
    /\ (pc = "aborted" /\ err = "ConnectionError") => listing = None

\* a detail fetch threw, and the next row got its record with details
C1_Witness ==
    /\ pc = "done"
    /\ \E k \in 1..(Len(films) - 1) :
          /\ Threw(k)
          /\ films[k].title # None /\ EnrichmentNull(films[k])
          /\ films[k + 1].director # None

\* C2: a film whose detail request is answered with a non-success status has
\* all four detail fields null, whatever the body holds.
C2_NonSuccessLeavesNull ==
    \A k \in 1..Len(films) : NonSuccess(k) => EnrichmentNull(films[k])

\* C3: the listing parse never raises; a page without a table of the
\* expected class, or whose header row has no cell containing "title", gives
\* the empty list.
C3_ListingParseNeverRaises ==
    /\ ~(pc = "aborted" /\ err \in {"AttributeError", "TypeError"})
    /\ (Returned /\ title_index = None) => films = <<>>

\* C6: the delete-all precedes the insert-many and there is one insert-many;
\* after a completed run the collection holds exactly the run's records, one
\* per listing row that reaches the title column, in listing order, and no
\* document it held before.
C6_FullReplacement ==
    /\ ops \in {<<>>, <<"delete_many">>, <<"delete_many", "insert_many">>}
    /\ pc \in {"inserted", "done"} =>
          /\ ops = <<"delete_many", "insert_many">>
          /\ [k \in 1..Len(collection) |-> WithoutId(collection[k])] = films
          /\ Len(collection) = Len(Reaching(Len(rows)))
          /\ \A k \in 1..Len(collection) :
                collection[k].title = Some(TitleOfRow(Reaching(Len(rows))[k]))
          /\ NoPriorDocument

\* a run completed over a collection that held documents, and stored two
\* films with different titles
C6_Witness ==
    /\ pc = "done"
    /\ prior # <<>>
    /\ Len(collection) >= 2
    /\ collection[1].title # collection[2].title

\* C10 as stated: a run that aborts after its delete-all (the listing fetch
\* fails, the listing parse raises, or insert-many fails) ends with the
\* collection empty.
C10_AbortLeavesEmpty ==
    (pc = "aborted" /\ ops # <<>>) => collection = <<>>

\* C10 as amended: the delete-all precedes the listing fetch, and a run that
\* aborts after it keeps none of the documents held before the run; the
\* collection is empty when the listing fetch fails, the listing parse
\* raises or insert-many is handed an empty batch, and holds a prefix of the
\* new batch (possibly empty) when insert-many fails on a non-empty batch.
C10_AbortDropsPrior ==
    /\ listing # None => ops # <<>>
    /\ (pc = "aborted" /\ ops # <<>>) =>
          /\ NoPriorDocument
          /\ err # "BulkWriteError" => collection = <<>>
          /\ err = "BulkWriteError" =>
                /\ Len(collection) <= Len(films)
                /\ \A k \in 1..Len(collection) : WithoutId(collection[k]) = films[k]

\* runs over a collection that held documents abort after the delete-all
C10_Witness ==
    /\ pc = "aborted"
    /\ prior # <<>>
    /\ ops # <<>>
    /\ err \in {"ConnectionError", "AttributeError", "TypeError", "InvalidOperation"}
    /\ collection = <<>>

====
